---------------------------- MODULE Spec2Model ----------------------------
(***************************************************************************)
(* Batch extraction pipeline of Gemini-OCR-Example:                        *)
(*   - LLMClient.validate_json_output (response repair and parsing),       *)
(*   - BaseExtractor.process_directory / process_file /                    *)
(*     _process_file_wrapper (sequential and parallel directory runs,      *)
(*     checkpointing, cost and usage aggregation).                         *)
(*                                                                         *)
(* Texts are sequences of one-character strings.  Money is counted in      *)
(* units of 1e-8 USD, so that tokens/1e6 * rate is the integer             *)
(* tokens * (rate * 100); floating-point rounding is not modelled.         *)
(***************************************************************************)
EXTENDS Integers, Sequences, FiniteSets, TLC

(***************************************************************************)
(* Bounds of the model.                                                    *)
(***************************************************************************)
\* number of files returned by InputHandler.get_files_from_directory
NumFiles == 2
\* number of pieces of surrounding text put before / after a JSON text
MaxAffix == 2

(***************************************************************************)
(* Text helpers (Python str methods used by validate_json_output).         *)
(***************************************************************************)
Whitespace == {" ", "\n"}

Digits == {"1", "2"}

\* the grave accent of a markdown code fence, written as a named character
GraveAccent == "G"

Fence == <<GraveAccent, GraveAccent, GraveAccent>>

FenceJson == Fence \o <<"j", "s", "o", "n">>

\* str.startswith
StartsWith(s, p) == Len(s) >= Len(p) /\ SubSeq(s, 1, Len(p)) = p

\* str.endswith
EndsWith(s, p) == Len(s) >= Len(p) /\ SubSeq(s, Len(s) - Len(p) + 1, Len(s)) = p

\* s[n:]
DropFirst(s, n) == SubSeq(s, n + 1, Len(s))

\* s[:-n]
DropLast(s, n) == SubSeq(s, 1, Len(s) - n)

\* str.strip(): whitespace removed at both ends
Strip(s) ==
    LET keep == {i \in 1..Len(s) : s[i] \notin Whitespace}
    IN  IF keep = {} THEN <<>>
        ELSE LET lo == CHOOSE i \in keep : \A j \in keep : i <= j
                 hi == CHOOSE i \in keep : \A j \in keep : i >= j
             IN  SubSeq(s, lo, hi)

\* str.find(c): 1-based index of the first c, 0 when there is none
Find(s, c) ==
    LET at == {i \in 1..Len(s) : s[i] = c}
    IN  IF at = {} THEN 0 ELSE CHOOSE i \in at : \A j \in at : i <= j

\* str.rfind(c): 1-based index of the last c, 0 when there is none
RFind(s, c) ==
    LET at == {i \in 1..Len(s) : s[i] = c}
    IN  IF at = {} THEN 0 ELSE CHOOSE i \in at : \A j \in at : i >= j

(***************************************************************************)
(* json.loads on the JSON subset: arrays, objects, strings, numbers.       *)
(* A value is [t |-> tag, v |-> payload]: "arr" with the sequence of its   *)
(* elements, "obj" with the sequence of <<key, value>> members, "str" and  *)
(* "num" with their characters.                                            *)
(***************************************************************************)
NullValue == [t |-> "null", v |-> <<>>]

ParseFail == [ok |-> FALSE, val |-> NullValue, pos |-> 0]

\* first position >= i that holds no whitespace (Len(s)+1 at the end)
SkipWs(s, i) ==
    CHOOSE j \in i..(Len(s) + 1) :
        /\ (j = Len(s) + 1 \/ s[j] \notin Whitespace)
        /\ \A k \in i..(j - 1) : s[k] \in Whitespace

ParseNumber(s, i) ==
    LET j == CHOOSE e \in i..(Len(s) + 1) :
                 /\ (e = Len(s) + 1 \/ s[e] \notin Digits)
                 /\ \A k \in i..(e - 1) : s[k] \in Digits
    IN  [ok |-> TRUE, val |-> [t |-> "num", v |-> SubSeq(s, i, j - 1)], pos |-> j]

ParseString(s, i) ==
    LET close == {j \in (i + 1)..Len(s) : s[j] = "\""}
    IN  IF close = {} THEN ParseFail
        ELSE LET j == CHOOSE e \in close : \A k \in close : e <= k
             IN  IF \E k \in (i + 1)..(j - 1) : s[k] = "\n" THEN ParseFail
                 ELSE [ok |-> TRUE, val |-> [t |-> "str", v |-> SubSeq(s, i + 1, j - 1)],
                       pos |-> j + 1]

RECURSIVE ParseValue(_, _)
RECURSIVE ParseArrayRest(_, _, _)
RECURSIVE ParseObjectRest(_, _, _)

ParseValue(s, i) ==
    IF i > Len(s) THEN ParseFail
    ELSE IF s[i] = "[" THEN
        LET j == SkipWs(s, i + 1)
        IN  IF j <= Len(s) /\ s[j] = "]"
            THEN [ok |-> TRUE, val |-> [t |-> "arr", v |-> <<>>], pos |-> j + 1]
            ELSE ParseArrayRest(s, j, <<>>)
    ELSE IF s[i] = "{" THEN
        LET j == SkipWs(s, i + 1)
        IN  IF j <= Len(s) /\ s[j] = "}"
            THEN [ok |-> TRUE, val |-> [t |-> "obj", v |-> <<>>], pos |-> j + 1]
            ELSE ParseObjectRest(s, j, <<>>)
    ELSE IF s[i] = "\"" THEN ParseString(s, i)
    ELSE IF s[i] \in Digits THEN ParseNumber(s, i)
    ELSE ParseFail

ParseArrayRest(s, i, acc) ==
    LET e == ParseValue(s, i)
    IN  IF ~e.ok THEN ParseFail
        ELSE LET j == SkipWs(s, e.pos)
             IN  IF j > Len(s) THEN ParseFail
                 ELSE IF s[j] = ","
                 THEN ParseArrayRest(s, SkipWs(s, j + 1), Append(acc, e.val))
                 ELSE IF s[j] = "]"
                 THEN [ok |-> TRUE, val |-> [t |-> "arr", v |-> Append(acc, e.val)],
                       pos |-> j + 1]
                 ELSE ParseFail

ParseObjectRest(s, i, acc) ==
    IF i > Len(s) \/ s[i] # "\"" THEN ParseFail
    ELSE LET k == ParseString(s, i)
         IN  IF ~k.ok THEN ParseFail
             ELSE LET c == SkipWs(s, k.pos)
                  IN  IF c > Len(s) \/ s[c] # ":" THEN ParseFail
                      ELSE LET e == ParseValue(s, SkipWs(s, c + 1))
                           IN  IF ~e.ok THEN ParseFail
                               ELSE LET j == SkipWs(s, e.pos)
                                        m == Append(acc, <<k.val.v, e.val>>)
                                    IN  IF j > Len(s) THEN ParseFail
                                        ELSE IF s[j] = ","
                                        THEN ParseObjectRest(s, SkipWs(s, j + 1), m)
                                        ELSE IF s[j] = "}"
                                        THEN [ok |-> TRUE, val |-> [t |-> "obj", v |-> m],
                                              pos |-> j + 1]
                                        ELSE ParseFail

\* json.loads: one value surrounded by optional whitespace, nothing else
json_loads(s) ==
    LET r == ParseValue(s, SkipWs(s, 1))
    IN  IF r.ok /\ SkipWs(s, r.pos) = Len(s) + 1
        THEN [ok |-> TRUE, val |-> r.val]
        ELSE [ok |-> FALSE, val |-> NullValue]

\* nesting depth at which json.loads gives up with RecursionError (the
\* interpreter's recursion limit, scaled down)
RecursionLimit == 6

\* how deep the brackets of s nest: the largest excess of opening over
\* closing brackets in a prefix of s
NestingDepth(s) ==
    LET excess(i) == Cardinality({k \in 1..i : s[k] \in {"[", "{"}})
                     - Cardinality({k \in 1..i : s[k] \in {"]", "}"}})
        found == {excess(i) : i \in 0..Len(s)}
    IN  CHOOSE d \in found : \A e \in found : e <= d

(***************************************************************************)
(* LLMClient.validate_json_output.  The result is                          *)
(* [ok, err, data]: data is the returned list when ok, err the exception   *)
(* class raised otherwise.                                                 *)
(***************************************************************************)
Returned(d) == [ok |-> TRUE, err |-> "", data |-> d]

Raised(e) == [ok |-> FALSE, err |-> e, data |-> <<>>]

\* the markdown-fence stripping of lines 290-296
StripFences(json_str) ==
    LET s1 == IF StartsWith(json_str, FenceJson)
              THEN Strip(DropFirst(json_str, Len(FenceJson)))
              ELSE IF StartsWith(json_str, Fence)
              THEN Strip(DropFirst(json_str, Len(Fence)))
              ELSE json_str
    IN  IF EndsWith(s1, Fence) THEN Strip(DropLast(s1, Len(Fence))) ELSE s1

\* CutToOpen that keeps the text in front of the first '['
CutToOpen_Keeps(s) == s

\* lines 299-303: cut everything before the first '['
CutToOpen(s) ==
    IF StartsWith(s, <<"[">>) THEN s ELSE SubSeq(s, Find(s, "["), Len(s))

\* lines 309-313: cut everything after the last ']'
CutToClose(s) ==
    IF EndsWith(s, <<"]">>) THEN s ELSE SubSeq(s, 1, RFind(s, "]"))

\* lines 320-330: what json.loads gave is wrapped in a list when it is a
\* dict, returned when it is a list, refused otherwise
validated_data(data) ==
    IF ~data.ok THEN Raised("JSONDecodeError")
    ELSE IF data.val.t = "obj" THEN Returned(<<data.val>>)
    ELSE IF data.val.t = "arr" THEN Returned(data.val.v)
    ELSE Raised("TypeError")

\* line 320: json.loads of the cut text
loads_cut(s) ==
    IF NestingDepth(s) > RecursionLimit THEN Raised("RecursionError")
    ELSE validated_data(json_loads(s))

\* lines 309-317: the text from its first '[' on
validate_opened(s) ==
    IF ~EndsWith(s, <<"]">>) /\ RFind(s, "]") = 0
    THEN Raised("JSONDecodeError")
    ELSE loads_cut(CutToClose(s))

\* lines 299-307: the text without its fences
validate_stripped(s) ==
    IF ~StartsWith(s, <<"[">>) /\ Find(s, "[") = 0
    THEN Raised("JSONDecodeError")
    ELSE validate_opened(CutToOpen(s))

validate_json_output(json_str) ==
    IF json_str = <<>> THEN Returned(<<>>)
    ELSE validate_stripped(StripFences(json_str))

(***************************************************************************)
(* Inputs of a directory run.                                              *)
(***************************************************************************)
\* files in catalog order; file f has the path string f
Files == 1..NumFiles

\* multiprocessing.cpu_count() of the machine
CpuCount == 2

\* largest --workers value tried (0 is "auto-detect": main passes None)
MaxRequested == 1

\* MODEL_PRICING rates, USD per million tokens times 100
InputRate == 15

OutputRate == 60

ThinkingRate == 350

\* usage_metadata dicts built by LLMClient._generate_content: a call without
\* thinking, a call with thinking tokens
UsagePlain ==
    [prompt_token_count |-> 1000, candidates_token_count |-> 200,
     thinking_enabled |-> FALSE, thinking_tokens_used |-> 0]

UsageThinking ==
    [prompt_token_count |-> 3000, candidates_token_count |-> 100,
     thinking_enabled |-> TRUE, thinking_tokens_used |-> 50]

UsageVals == {UsagePlain, UsageThinking}

RecordA == <<"{", "\"", "a", "\"", ":", "1", "}">>

RecordB == <<"{", "\"", "a", "\"", ":", "2", "}">>

\* a fenced array of one record, a bare array of two records, prose
TextFenced == FenceJson \o <<"\n", "[">> \o RecordA \o <<"]", "\n">> \o Fence

TextTwoRecords == <<"[">> \o RecordA \o <<",", " ">> \o RecordB \o <<"]">>

TextProse == <<"x", " ", "x">>

RECURSIVE Nested(_)
\* the number 1 inside n pairs of array brackets
Nested(n) == IF n = 0 THEN <<"1">> ELSE <<"[">> \o Nested(n - 1) \o <<"]">>

\* an array nested deeper than json.loads can follow
TextDeep == Nested(RecursionLimit + 1)

RespTexts == {<<>>, TextFenced, TextTwoRecords, TextProse, TextDeep}

\* What happens to one file: InputHandler.read_file returns or raises, and
\* the llm_response dict {"text", "usage_metadata", "error"} of the call:
\* the read fails; the call fails without usage data (API error); the call
\* is blocked after the tokens were counted; the call returns a fenced
\* array, or prose, with usage data; the call returns an array and the
\* usage data could not be obtained; the call returns an empty text; the
\* call returns an array nested too deep for json.loads.
Scenarios ==
    { [read |-> "raises", error |-> FALSE, usage_metadata |-> <<>>, text |-> <<>>],
      [read |-> "ok", error |-> TRUE, usage_metadata |-> <<>>, text |-> <<>>],
      [read |-> "ok", error |-> TRUE, usage_metadata |-> <<UsagePlain>>, text |-> <<>>],
      [read |-> "ok", error |-> FALSE, usage_metadata |-> <<UsageThinking>>,
       text |-> TextFenced],
      [read |-> "ok", error |-> FALSE, usage_metadata |-> <<UsageThinking>>,
       text |-> TextProse],
      [read |-> "ok", error |-> FALSE, usage_metadata |-> <<>>,
       text |-> TextTwoRecords],
      [read |-> "ok", error |-> FALSE, usage_metadata |-> <<UsagePlain>>,
       text |-> <<>>],
      [read |-> "ok", error |-> FALSE, usage_metadata |-> <<UsagePlain>>,
       text |-> TextDeep] }

NoScenario == [read |-> "none", error |-> FALSE, usage_metadata |-> <<>>, text |-> <<>>]

(***************************************************************************)
(* The checkpoint file on disk.  len is its length counted in path         *)
(* entries (all path strings have the same length); ok says that           *)
(* json.load accepts the content.                                          *)
(***************************************************************************)
NoFile == [exists |-> FALSE, ok |-> FALSE, len |-> 0, paths |-> {}]

ValidFile(S) == [exists |-> TRUE, ok |-> TRUE, len |-> Cardinality(S), paths |-> S]

\* open(CHECKPOINT_FILE, "w"): created or cut to length 0
Truncated == [exists |-> TRUE, ok |-> FALSE, len |-> 0, paths |-> {}]

\* the buffered json.dump of list L reaches the file, at offset 0, when the
\* writer closes it: bytes that another writer put behind it stay
FlushOver(file, L) ==
    IF file.len > Cardinality(L)
    THEN [exists |-> TRUE, ok |-> FALSE, len |-> file.len, paths |-> {}]
    ELSE ValidFile(L)

(***************************************************************************)
(* State.                                                                  *)
(***************************************************************************)
\* config.py flags and the arguments of process_directory
VARIABLE cfg
\* content of CHECKPOINT_FILE
VARIABLE ckptFile
\* holder of the flock on CHECKPOINT_FILE, 0 when free
VARIABLE ckptLock
\* position of the orchestrating process
VARIABLE pc
\* loop index of the for loop being executed
VARIABLE idx
\* BaseExtractor.total_cost
VARIABLE total_cost
\* BaseExtractor.usage_metadata_list
VARIABLE usage_metadata_list
\* BaseExtractor.run_metadata (the counters)
VARIABLE run_metadata
\* BaseExtractor.processed_files
VARIABLE processed_files
\* BaseExtractor.file_status
VARIABLE file_status
\* OutputManager.all_data, records as <<file, index>>
VARIABLE all_data
\* the list of (file_path, future) of the parallel path
VARIABLE futures
\* position of the worker task of each file
VARIABLE wpc
\* return value of the worker task of each file
VARIABLE wres
\* processed_files list local to each worker
VARIABLE wlist
\* the scenario each file met in this run
VARIABLE resp
\* history of the run, kept for the properties
VARIABLE hist
\* text given to validate_json_output
VARIABLE raw
\* what validate_json_output did with raw
VARIABLE out

vars == <<cfg, ckptFile, ckptLock, pc, idx, total_cost, usage_metadata_list,
          run_metadata, processed_files, file_status, all_data, futures,
          wpc, wres, wlist, resp, hist, raw, out>>

parallel == cfg.parallel

CALCULATE_COST == cfg.CALCULATE_COST

ENABLE_CHECKPOINTING == cfg.ENABLE_CHECKPOINTING

RESUME_FROM_CHECKPOINT == cfg.RESUME_FROM_CHECKPOINT

Range(s) == {s[i] : i \in 1..Len(s)}

Min(a, b) == IF a <= b THEN a ELSE b

(***************************************************************************)
(* Pure parts of BaseExtractor.                                            *)
(***************************************************************************)
\* the model the pricing table lists, and the model name of the runs
\* (GOOGLE_MODEL is not set: config.DEFAULT_MODEL)
ListedModel == "gemini-2.5-flash-preview-04-17"

ModelName == ListedModel

\* config.MODEL_PRICING: the listed model and the DEFAULT entry
MODEL_PRICING ==
    [m \in {ListedModel, "DEFAULT"} |->
        [input_cost_per_million_tokens |-> InputRate,
         output_cost_per_million_tokens |-> OutputRate,
         thinking_cost_per_million_tokens |-> ThinkingRate]]

\* LLMClient.get_model_pricing
get_model_pricing(model_name) ==
    IF model_name \in DOMAIN MODEL_PRICING
    THEN MODEL_PRICING[model_name]
    ELSE MODEL_PRICING["DEFAULT"]

\* a price that charges the thinking tokens whatever the flag says
PriceAt_IgnoresFlag(pricing, u) ==
    u.prompt_token_count * pricing.input_cost_per_million_tokens
    + u.candidates_token_count * pricing.output_cost_per_million_tokens
    + u.thinking_tokens_used * pricing.thinking_cost_per_million_tokens

\* the price of one call at the given rates, lines 98-106 (and 515-519 in
\* the worker)
PriceAt(pricing, u) ==
    u.prompt_token_count * pricing.input_cost_per_million_tokens
    + u.candidates_token_count * pricing.output_cost_per_million_tokens
    + (IF u.thinking_enabled /\ u.thinking_tokens_used > 0
       THEN u.thinking_tokens_used * pricing.thinking_cost_per_million_tokens
       ELSE 0)

\* the price of one call of a run
Price(u) == PriceAt(get_model_pricing(ModelName), u)

\* _calculate_and_log_cost of a client for model_name: the returned cost and
\* what it appends to usage_metadata_list
calculate_and_log_cost_at(model_name, usage, calc) ==
    IF ~calc \/ usage = <<>>
    THEN [cost |-> 0, appended |-> <<>>]
    ELSE [cost |-> PriceAt(get_model_pricing(model_name), usage[1]),
          appended |-> usage]

\* _calculate_and_log_cost in a run
calculate_and_log_cost(usage, calc) ==
    calculate_and_log_cost_at(ModelName, usage, calc)

\* validate_json_output on the texts the Recognizer returns in the model
Validated == [t \in RespTexts |-> validate_json_output(t)]

\* records of file f as they are kept in the model: <<f, 1>> .. <<f, n>>
Records(f, data) == [k \in 1..Len(data) |-> <<f, k>>]

\* process_file up to its Succeeded/Failed mark (lines 173-233 and the
\* except clauses): the mark, what is added to total_cost, what is appended
\* to usage_metadata_list, the parsed records
\* process_file after the Recognizer call: c is what lines 216 and 225
\* priced, v what validate_json_output did, again what the except clause
\* of lines 265-272 prices when it is reached
outcome_after_call(sc, c, v, again) ==
    IF sc.error
    THEN [status |-> "failed", cost |-> c.cost, appended |-> c.appended,
          data |-> <<>>]
    ELSE IF v.ok
    THEN [status |-> "success", cost |-> c.cost, appended |-> c.appended,
          data |-> v.data]
    ELSE IF v.err \in {"JSONDecodeError", "TypeError"}
    THEN [status |-> "failed", cost |-> c.cost, appended |-> c.appended,
          data |-> <<>>]
    ELSE [status |-> "failed", cost |-> c.cost + again.cost,
          appended |-> c.appended \o again.appended, data |-> <<>>]

process_file_outcome(sc, calc) ==
    IF sc.read # "ok"
    THEN [status |-> "failed", cost |-> 0, appended |-> <<>>, data |-> <<>>]
    ELSE outcome_after_call(sc,
             calculate_and_log_cost(sc.usage_metadata, calc),
             Validated[sc.text],
             calculate_and_log_cost(sc.usage_metadata, calc))

\* _process_file_wrapper after a call without error: file_cost is what
\* lines 506-519 priced, v what validate_json_output did
worker_after_call(sc, file_cost, v) ==
    IF v.ok
    THEN [result |-> v.data, file_cost |-> file_cost, status |-> "success",
          usage_metadata |-> sc.usage_metadata]
    ELSE [result |-> <<>>, file_cost |-> file_cost, status |-> "failed",
          usage_metadata |-> sc.usage_metadata]

\* _process_file_wrapper: the tuple (records, file_cost, status,
\* usage_metadata) it returns
worker_outcome(sc) ==
    IF sc.read # "ok"
    THEN [result |-> <<>>, file_cost |-> 0, status |-> "failed", usage_metadata |-> <<>>]
    ELSE IF sc.error
    THEN [result |-> <<>>, file_cost |-> 0, status |-> "failed",
          usage_metadata |-> sc.usage_metadata]
    ELSE worker_after_call(sc,
             IF sc.usage_metadata # <<>> THEN Price(sc.usage_metadata[1]) ELSE 0,
             Validated[sc.text])

\* a client that repeats a failed call once
recognizer_calls_Retry(sc) ==
    IF sc.read # "ok" THEN 0 ELSE IF sc.error THEN 2 ELSE 1

\* the number of Recognizer calls made for one file: process_image or
\* process_text once after a successful read (lines 188-204, 477-493), each
\* of them one generate_content call
recognizer_calls(sc) == IF sc.read = "ok" THEN 1 ELSE 0

NoResult == [result |-> <<>>, file_cost |-> 0, status |-> "none", usage_metadata |-> <<>>]

\* _load_checkpoint that never reads the file
load_checkpoint_Ignores(processed, file, resume) == processed

\* _load_checkpoint: the new value of processed_files
load_checkpoint(processed, file, resume) ==
    IF resume /\ file.exists /\ file.ok THEN file.paths ELSE processed

\* a skip test that compares the wrong thing and never matches
is_processed_Never(f, processed) == FALSE

\* the skip test of lines 344 and 401
is_processed(f, processed) == f \in processed

\* a pool that takes every submitted task at once
pool_size_Unbounded(max_workers, nfiles) == nfiles

\* size of the ProcessPoolExecutor, lines 330-336
pool_size(max_workers, nfiles) ==
    IF max_workers = 0 THEN Min(CpuCount, nfiles) ELSE max_workers

(***************************************************************************)
(* Initial state: a freshly constructed extractor (BaseExtractor.__init__) *)
(* and whatever an earlier run left in the checkpoint file.                *)
(***************************************************************************)
Configs ==
    { c \in [parallel : BOOLEAN, CALCULATE_COST : BOOLEAN,
             ENABLE_CHECKPOINTING : BOOLEAN, RESUME_FROM_CHECKPOINT : BOOLEAN,
             max_workers : 0..MaxRequested] :
        ~c.parallel => c.max_workers = 0 }

\* the checkpoint file before the run: absent, a list of paths, or a file
\* json.load cannot read (empty, cut short)
InitFiles == {NoFile, Truncated} \cup {ValidFile(S) : S \in (SUBSET Files) \ {{}}}

NoCounters == [total_files |-> 0, successful_files |-> 0, failed_files |-> 0,
               ended |-> FALSE]

NoStatus == [successful |-> <<>>, failed |-> <<>>, skipped |-> <<>>]

NoFirstRun == [successful |-> {}, failed |-> {}, skipped |-> {},
               save_failed |-> FALSE]

NoHistory == [run |-> 1, loaded |-> {}, dispatched |-> {}, ckpt_writers |-> {},
              save_failed |-> FALSE, first |-> NoFirstRun, left |-> NoFile,
              calls |-> [f \in Files |-> 0], report |-> <<>>]

NoInput == [lead |-> <<>>, json |-> <<>>, trail |-> <<>>]

NotValidated == [ok |-> FALSE, err |-> "not called", data |-> <<>>]

IdleWorkers == [f \in Files |-> "idle"]

NoResults == [f \in Files |-> NoResult]

NoLists == [f \in Files |-> {}]

NoScenarios == [f \in Files |-> NoScenario]

Init ==
    /\ cfg \in Configs
    /\ ckptFile \in InitFiles
    /\ hist = NoHistory
    /\ ckptLock = 0
    /\ pc = "init"
    /\ idx = 0
    /\ total_cost = 0
    /\ usage_metadata_list = <<>>
    /\ run_metadata = NoCounters
    /\ processed_files = {}
    /\ file_status = NoStatus
    /\ all_data = <<>>
    /\ futures = <<>>
    /\ wpc = IdleWorkers
    /\ wres = NoResults
    /\ wlist = NoLists
    /\ resp = NoScenarios
    /\ raw = NoInput
    /\ out = NotValidated

(***************************************************************************)
(* process_directory: entry (lines 291-326).                               *)
(***************************************************************************)
\* AfterFile with a loop that stops one file short
AfterFile_OffByOne(i, n, status) == IF i >= n THEN "finish" ELSE "seq_loop"

\* lines 400-412: whatever became of file i-1 (skipped, success, failed),
\* the for loop goes on to file i, and ends after the last of the n files
AfterFile(i, n, status) == IF i > n THEN "finish" ELSE "seq_loop"

Start ==
    /\ pc = "init"
    /\ total_cost' = 0
    /\ usage_metadata_list' = <<>>
    /\ run_metadata' = NoCounters
    /\ processed_files' = load_checkpoint(processed_files, ckptFile,
                                          RESUME_FROM_CHECKPOINT)
    /\ hist' = [hist EXCEPT !.loaded = processed_files']
    /\ pc' = IF parallel THEN "submit" ELSE "seq_loop"
    /\ idx' = 1
    /\ UNCHANGED <<cfg, ckptFile, ckptLock, file_status, all_data, futures,
                   wpc, wres, wlist, resp, raw, out>>

(***************************************************************************)
(* Sequential path (lines 400-412) and process_file (lines 163-273).       *)
(***************************************************************************)
SeqSkip ==
    /\ pc = "seq_loop" /\ idx <= NumFiles
    /\ is_processed(idx, processed_files)
    /\ file_status' = [file_status EXCEPT !.skipped = Append(@, idx)]
    /\ idx' = idx + 1
    /\ pc' = AfterFile(idx + 1, NumFiles, "skipped")
    /\ UNCHANGED <<cfg, ckptFile, ckptLock, total_cost, usage_metadata_list,
                   run_metadata, processed_files, all_data, futures, wpc, wres,
                   wlist, resp, hist, raw, out>>

\* counters that leave failed files out of total_files
count_file_SuccessOnly(metadata, status) ==
    IF status = "success"
    THEN [metadata EXCEPT !.total_files = @ + 1, !.successful_files = @ + 1]
    ELSE [metadata EXCEPT !.failed_files = @ + 1]

\* the counters of run_metadata after one dispatched file: total_files
\* (process_file line 178, process_directory lines 385 and 395) and one of
\* successful_files and failed_files
count_file(metadata, status) ==
    IF status = "success"
    THEN [metadata EXCEPT !.total_files = @ + 1, !.successful_files = @ + 1]
    ELSE [metadata EXCEPT !.total_files = @ + 1, !.failed_files = @ + 1]

\* process_file from its entry to the Succeeded/Failed mark
SeqProcess ==
    /\ pc = "seq_loop" /\ idx <= NumFiles
    /\ ~is_processed(idx, processed_files)
    /\ \E sc \in Scenarios :
        \E o \in {process_file_outcome(sc, CALCULATE_COST)} :
            /\ resp' = [resp EXCEPT ![idx] = sc]
            /\ total_cost' = total_cost + o.cost
            /\ usage_metadata_list' = usage_metadata_list \o o.appended
            /\ IF o.status = "success"
               THEN /\ run_metadata' = count_file(run_metadata, "success")
                    /\ file_status' = [file_status EXCEPT
                                           !.successful = Append(@, idx)]
                    /\ pc' = "seq_sink"
                    /\ idx' = idx
               ELSE /\ run_metadata' = count_file(run_metadata, "failed")
                    /\ file_status' = [file_status EXCEPT
                                           !.failed = Append(@, idx)]
                    /\ pc' = AfterFile(idx + 1, NumFiles, "failed")
                    /\ idx' = idx + 1
    /\ hist' = [hist EXCEPT !.dispatched = @ \cup {idx},
                            !.calls[idx] = @ + recognizer_calls(resp'[idx])]
    /\ UNCHANGED <<cfg, ckptFile, ckptLock, processed_files, all_data, futures,
                   wpc, wres, wlist, raw, out>>

\* OutputManager.save_to_excel: nothing for an empty list; a failed write is
\* logged and leaves all_data alone
save_to_excel(data, records, written) ==
    IF records = <<>> \/ ~written THEN data ELSE data \o records

\* line 236
SeqSink ==
    /\ pc = "seq_sink"
    /\ \E written \in BOOLEAN :
        all_data' = save_to_excel(all_data,
                        Records(idx, process_file_outcome(resp[idx],
                                                          CALCULATE_COST).data),
                        written)
    /\ pc' = "seq_ckpt"
    /\ UNCHANGED <<cfg, ckptFile, ckptLock, idx, total_cost, usage_metadata_list,
                   run_metadata, processed_files, file_status, futures, wpc,
                   wres, wlist, resp, hist, raw, out>>

\* _save_checkpoint that returns without writing
save_checkpoint_Never(file, processed, enabled, written) == file

\* _save_checkpoint that adds to what the file holds
save_checkpoint_Appends(file, processed, enabled, written) ==
    IF enabled /\ written THEN ValidFile(processed \cup file.paths) ELSE file

\* _save_checkpoint: the new content of the checkpoint file
save_checkpoint(file, processed, enabled, written) ==
    IF enabled /\ written THEN ValidFile(processed) ELSE file

\* lines 239-242
SeqCheckpoint ==
    /\ pc = "seq_ckpt"
    /\ processed_files' = processed_files \cup {idx}
    /\ \E written \in BOOLEAN :
        /\ ckptFile' = save_checkpoint(ckptFile, processed_files',
                                       ENABLE_CHECKPOINTING, written)
        /\ hist' = [hist EXCEPT
                      !.ckpt_writers = IF ENABLE_CHECKPOINTING /\ written
                                       THEN @ \cup {"orchestrator"} ELSE @,
                      !.save_failed = @ \/ (ENABLE_CHECKPOINTING /\ ~written)]
    /\ idx' = idx + 1
    /\ pc' = AfterFile(idx + 1, NumFiles, "success")
    /\ UNCHANGED <<cfg, ckptLock, total_cost, usage_metadata_list, run_metadata,
                   file_status, all_data, futures, wpc, wres, wlist, resp, raw,
                   out>>

(***************************************************************************)
(* Parallel path: submission (lines 343-358).                              *)
(***************************************************************************)
\* the position after the submit loop: the collect loop, or past it when no
\* future was submitted
AfterSubmit(i, futs) ==
    IF i <= NumFiles THEN "submit"
    ELSE IF futs = <<>> THEN "finish" ELSE "collect"

\* a submit loop that puts each new future in front of the others
futures_append_AtFront(futs, f) == <<f>> \o futs

\* lines 353-358: futures.append((file_path, executor.submit(...)))
futures_append(futs, f) == Append(futs, f)

ParSkip ==
    /\ pc = "submit" /\ idx <= NumFiles
    /\ is_processed(idx, processed_files)
    /\ file_status' = [file_status EXCEPT !.skipped = Append(@, idx)]
    /\ pc' = AfterSubmit(idx + 1, futures)
    /\ idx' = IF idx + 1 <= NumFiles THEN idx + 1 ELSE 1
    /\ UNCHANGED <<cfg, ckptFile, ckptLock, total_cost, usage_metadata_list,
                   run_metadata, processed_files, all_data, futures, wpc, wres,
                   wlist, resp, hist, raw, out>>

ParSubmit ==
    /\ pc = "submit" /\ idx <= NumFiles
    /\ ~is_processed(idx, processed_files)
    /\ futures' = futures_append(futures, idx)
    /\ wpc' = [wpc EXCEPT ![idx] = "queued"]
    /\ hist' = [hist EXCEPT !.dispatched = @ \cup {idx}]
    /\ pc' = AfterSubmit(idx + 1, futures')
    /\ idx' = IF idx + 1 <= NumFiles THEN idx + 1 ELSE 1
    /\ UNCHANGED <<cfg, ckptFile, ckptLock, total_cost, usage_metadata_list,
                   run_metadata, processed_files, file_status, all_data, wres,
                   wlist, resp, raw, out>>

(***************************************************************************)
(* Worker tasks: _process_file_wrapper (lines 446-566), one per submitted  *)
(* file, run by the processes of the pool.                                 *)
(***************************************************************************)
\* tasks that a pool process is executing
Executing == {f \in Files : wpc[f] \notin {"idle", "queued", "done", "faulted"}}

\* a free pool process takes the oldest queued task
WorkerStart(f) ==
    /\ wpc[f] = "queued"
    /\ \A i \in 1..Len(futures) :
           futures[i] = f => \A j \in 1..(i - 1) : wpc[futures[j]] # "queued"
    /\ Cardinality(Executing) < pool_size(cfg.max_workers, NumFiles)
    /\ wpc' = [wpc EXCEPT ![f] = "running"]
    /\ UNCHANGED <<cfg, ckptFile, ckptLock, pc, idx, total_cost,
                   usage_metadata_list, run_metadata, processed_files,
                   file_status, all_data, futures, wres, wlist, resp, hist,
                   raw, out>>

\* lines 467-522: read, Recognizer call, price, validation
WorkerProcess(f) ==
    /\ wpc[f] = "running"
    /\ \E sc \in Scenarios :
        \E r \in {worker_outcome(sc)} :
            /\ resp' = [resp EXCEPT ![f] = sc]
            /\ wres' = [wres EXCEPT ![f] = r]
            /\ wpc' = [wpc EXCEPT ![f] =
                          IF r.status = "success" /\ ENABLE_CHECKPOINTING
                          THEN "ckpt_read" ELSE "done"]
    /\ hist' = [hist EXCEPT !.calls[f] = @ + recognizer_calls(resp'[f])]
    /\ UNCHANGED <<cfg, ckptFile, ckptLock, pc, idx, total_cost,
                   usage_metadata_list, run_metadata, processed_files,
                   file_status, all_data, futures, wlist, raw, out>>

\* the task ends without a return value: future.result() will raise
WorkerFault(f) ==
    /\ wpc[f] = "running"
    /\ wpc' = [wpc EXCEPT ![f] = "faulted"]
    /\ UNCHANGED <<cfg, ckptFile, ckptLock, pc, idx, total_cost,
                   usage_metadata_list, run_metadata, processed_files,
                   file_status, all_data, futures, wres, wlist, resp, hist,
                   raw, out>>

\* lines 531-545: the list read under LOCK_EX at 536-538 (or [] when the file is
\* missing or json.load raises), plus this file
worker_read_list(file, f) ==
    (IF file.exists /\ file.ok THEN file.paths ELSE {}) \cup {f}

WorkerCkptRead(f) ==
    /\ wpc[f] = "ckpt_read"
    /\ ckptFile.exists => ckptLock = 0
    /\ wlist' = [wlist EXCEPT ![f] = worker_read_list(ckptFile, f)]
    /\ wpc' = [wpc EXCEPT ![f] = "ckpt_open"]
    /\ UNCHANGED <<cfg, ckptFile, ckptLock, pc, idx, total_cost,
                   usage_metadata_list, run_metadata, processed_files,
                   file_status, all_data, futures, wres, resp, hist, raw, out>>

\* line 548: open(CHECKPOINT_FILE, "w") truncates before any lock is taken
WorkerCkptOpen(f) ==
    /\ wpc[f] = "ckpt_open"
    /\ ckptFile' = Truncated
    /\ hist' = [hist EXCEPT !.ckpt_writers = @ \cup {"worker"}]
    /\ wpc' = [wpc EXCEPT ![f] = "ckpt_lock"]
    /\ UNCHANGED <<cfg, ckptLock, pc, idx, total_cost, usage_metadata_list,
                   run_metadata, processed_files, file_status, all_data,
                   futures, wres, wlist, resp, raw, out>>

\* line 550: flock(f, LOCK_EX)
WorkerCkptLock(f) ==
    /\ wpc[f] = "ckpt_lock"
    /\ ckptLock = 0
    /\ ckptLock' = f
    /\ wpc' = [wpc EXCEPT ![f] = "ckpt_dump"]
    /\ UNCHANGED <<cfg, ckptFile, pc, idx, total_cost, usage_metadata_list,
                   run_metadata, processed_files, file_status, all_data,
                   futures, wres, wlist, resp, hist, raw, out>>

\* lines 551-552: json.dump into the file object's buffer, flock(f, LOCK_UN)
WorkerCkptUnlock(f) ==
    /\ wpc[f] = "ckpt_dump"
    /\ ckptLock' = 0
    /\ wpc' = [wpc EXCEPT ![f] = "ckpt_close"]
    /\ UNCHANGED <<cfg, ckptFile, pc, idx, total_cost, usage_metadata_list,
                   run_metadata, processed_files, file_status, all_data,
                   futures, wres, wlist, resp, hist, raw, out>>

\* end of the with block of line 548: the buffer is flushed, then line 557
WorkerCkptClose(f) ==
    /\ wpc[f] = "ckpt_close"
    /\ ckptFile' = FlushOver(ckptFile, wlist[f])
    /\ wpc' = [wpc EXCEPT ![f] = "done"]
    /\ UNCHANGED <<cfg, ckptLock, pc, idx, total_cost, usage_metadata_list,
                   run_metadata, processed_files, file_status, all_data,
                   futures, wres, wlist, resp, hist, raw, out>>

(***************************************************************************)
(* Parallel path: collection (lines 361-397).                              *)
(***************************************************************************)
\* the status the orchestrator records for a collected future
collect_status(state, r) ==
    IF state = "faulted" THEN "failed"
    ELSE IF r.status = "success" THEN "success" ELSE "failed"

\* lines 381-382 and 388-390: what a collected result adds to total_cost
\* and to usage_metadata_list
collect_cost(state, r) == IF state = "faulted" THEN 0 ELSE r.file_cost

collect_usage(state, r) == IF state = "faulted" THEN <<>> ELSE r.usage_metadata

\* a collection loop that a failed result leaves by an exception
AfterCollect_Raises(i, n, st) ==
    IF st = "failed" THEN "raised" ELSE IF i > n THEN "finish" ELSE "collect"

\* the position after collecting future i-1 of n with status st: the except
\* clause of line 392 keeps the loop going after a fault
AfterCollect(i, n, st) == IF i > n THEN "finish" ELSE "collect"

Collect ==
    /\ pc = "collect" /\ idx <= Len(futures)
    /\ LET f == futures[idx]
           st == collect_status(wpc[f], wres[f])
       IN  /\ wpc[f] \in {"done", "faulted"}
           /\ IF st = "success"
              THEN /\ run_metadata' = count_file(run_metadata, "success")
                   /\ file_status' = [file_status EXCEPT
                                          !.successful = Append(@, f)]
                   /\ \E written \in BOOLEAN :
                          all_data' = save_to_excel(all_data,
                                          Records(f, wres[f].result), written)
              ELSE /\ run_metadata' = count_file(run_metadata, "failed")
                   /\ file_status' = [file_status EXCEPT
                                          !.failed = Append(@, f)]
                   /\ all_data' = all_data
           /\ total_cost' = total_cost + collect_cost(wpc[f], wres[f])
           /\ usage_metadata_list' =
                  usage_metadata_list \o collect_usage(wpc[f], wres[f])
    /\ idx' = idx + 1
    /\ pc' = AfterCollect(idx + 1, Len(futures),
                          collect_status(wpc[futures[idx]], wres[futures[idx]]))
    /\ UNCHANGED <<cfg, ckptFile, ckptLock, processed_files, futures, wpc,
                   wres, wlist, resp, hist, raw, out>>

(***************************************************************************)
(* End of process_directory (lines 414-443), and a second invocation of    *)
(* the program on the same directory.                                      *)
(***************************************************************************)
\* the longest file list ReportGenerator.generate_report writes out
ListLimit == 100

\* ReportGenerator.generate_report: the counters of run_metadata and the
\* three lists of file_status, the lists written name by name only when
\* they hold no more than ListLimit files together
generate_report(metadata, status) ==
    LET listed == Len(status.successful) + Len(status.failed)
                      + Len(status.skipped) <= ListLimit
    IN  [total_files |-> metadata.total_files,
         successful_files |-> metadata.successful_files,
         failed_files |-> metadata.failed_files,
         successful |-> IF listed THEN status.successful ELSE <<>>,
         failed |-> IF listed THEN status.failed ELSE <<>>,
         skipped |-> IF listed THEN status.skipped ELSE <<>>]

\* generate_run_report: no report when the sink holds no record
\* (lines 579-581), else the report of ReportGenerator
generate_run_report(data, metadata, status) ==
    IF data = <<>> THEN <<>> ELSE <<generate_report(metadata, status)>>

\* lines 414-443: end time and elapsed seconds are written to
\* run_metadata, the combined output is saved, the report is generated
Finish ==
    /\ pc = "finish"
    /\ run_metadata' = [run_metadata EXCEPT !.ended = TRUE]
    /\ hist' = [hist EXCEPT
                  !.report = generate_run_report(all_data, run_metadata',
                                                 file_status)]
    /\ pc' = "done"
    /\ UNCHANGED <<cfg, ckptFile, ckptLock, idx, total_cost,
                   usage_metadata_list, processed_files, file_status, all_data,
                   futures, wpc, wres, wlist, resp, raw, out>>

\* a new process: a new extractor, the same config, the checkpoint file as
\* the first run left it
Rerun ==
    /\ pc = "done" /\ hist.run = 1
    /\ hist' = [NoHistory EXCEPT
                  !.run = 2,
                  !.left = ckptFile,
                  !.first = [successful |-> Range(file_status.successful),
                             failed |-> Range(file_status.failed),
                             skipped |-> Range(file_status.skipped),
                             save_failed |-> hist.save_failed]]
    /\ ckptLock' = 0
    /\ pc' = "init"
    /\ idx' = 0
    /\ total_cost' = 0
    /\ usage_metadata_list' = <<>>
    /\ run_metadata' = NoCounters
    /\ processed_files' = {}
    /\ file_status' = NoStatus
    /\ all_data' = <<>>
    /\ futures' = <<>>
    /\ wpc' = IdleWorkers
    /\ wres' = NoResults
    /\ wlist' = NoLists
    /\ resp' = NoScenarios
    /\ UNCHANGED <<cfg, ckptFile, raw, out>>

Next ==
    \/ Start
    \/ SeqSkip
    \/ SeqProcess
    \/ SeqSink
    \/ SeqCheckpoint
    \/ ParSkip
    \/ ParSubmit
    \/ \E f \in Files : WorkerStart(f)
    \/ \E f \in Files : WorkerProcess(f)
    \/ \E f \in Files : WorkerFault(f)
    \/ \E f \in Files : WorkerCkptRead(f)
    \/ \E f \in Files : WorkerCkptOpen(f)
    \/ \E f \in Files : WorkerCkptLock(f)
    \/ \E f \in Files : WorkerCkptUnlock(f)
    \/ \E f \in Files : WorkerCkptClose(f)
    \/ Collect
    \/ Finish

Spec == Init /\ [][Next]_vars

\* two invocations of the program, the second one on what the first left
NextResume == Next \/ Rerun

InitResume == Init /\ ENABLE_CHECKPOINTING /\ RESUME_FROM_CHECKPOINT

SpecResume == InitResume /\ [][NextResume]_vars

(***************************************************************************)
(* The runs of Spec under fair scheduling: the orchestrator and the pool   *)
(* processes are operating-system processes that keep running, so a step   *)
(* that stays possible is eventually taken.  Every read and every          *)
(* Recognizer call of the model returns.  The runs taken are those with    *)
(* checkpointing on, where the workers wait for each other at the lock,    *)
(* starting without a checkpoint file or with one that names file 1.       *)
(***************************************************************************)
InitFair ==
    /\ Init /\ CALCULATE_COST /\ ENABLE_CHECKPOINTING
    /\ ckptFile \in {NoFile, ValidFile({1})}

SpecFair ==
    /\ InitFair
    /\ [][Next]_vars
    /\ WF_vars(Next)

(***************************************************************************)
(* Runs with checkpointing enabled in which the worker's write of the      *)
(* checkpoint file can fail as well.                                       *)
(***************************************************************************)
\* a worker whose failed write reaches the except clause of line 559
after_write_failure_Propagates(r) ==
    [r EXCEPT !.result = <<>>, !.status = "failed"]

\* the tuple the worker returns after a failed write: the one it had
\* (line 557)
after_write_failure(r) == r

\* line 548 raises (the file cannot be opened for writing): the except
\* clause of lines 554-555 logs the error, nothing is written, and the
\* worker returns its result at line 557
WorkerCkptFail(f) ==
    /\ wpc[f] = "ckpt_open"
    /\ wpc' = [wpc EXCEPT ![f] = "done"]
    /\ wres' = [wres EXCEPT ![f] = after_write_failure(@)]
    /\ hist' = [hist EXCEPT !.save_failed = TRUE]
    /\ UNCHANGED <<cfg, ckptFile, ckptLock, pc, idx, total_cost,
                   usage_metadata_list, run_metadata, processed_files,
                   file_status, all_data, futures, wlist, resp, raw, out>>

InitFail == Init /\ ENABLE_CHECKPOINTING /\ CALCULATE_COST

SpecFail ==
    /\ InitFail
    /\ [][Next \/ \E f \in Files : WorkerCkptFail(f)]_vars

(***************************************************************************)
(* validate_json_output on its own: a JSON text between a leading and a    *)
(* trailing text.                                                          *)
(***************************************************************************)
\* pieces of surrounding text: fences, prose, a line break, brackets
Pieces == {FenceJson, Fence, <<"x">>, <<"\n">>, <<"[">>, <<"]">>}

RECURSIVE Affixes(_)
\* the texts made of at most n pieces
Affixes(n) ==
    IF n = 0 THEN {<<>>}
    ELSE LET shorter == Affixes(n - 1)
         IN  shorter \cup {a \o p : a \in shorter, p \in Pieces}

\* well-formed JSON arrays
ArrayTexts ==
    { <<"[", "]">>,
      <<"[">> \o RecordA \o <<"]">>,
      TextTwoRecords,
      <<"[", "[", "1", "]", ",", "\"", "]", "\"", "]">> }

\* single JSON objects with no enclosing array: a flat one, one that holds
\* an array
ObjectTexts ==
    { RecordA,
      <<"{", "\"", "a", "\"", ":", "[", "1", "]", "}">> }

\* the texts put between the leading and the trailing text: an array, a
\* single object, or nothing
JsonTexts == ArrayTexts \cup ObjectTexts \cup {<<>>}

TextOf(r) == r.lead \o r.json \o r.trail

InitV ==
    /\ raw \in [lead : Affixes(MaxAffix), json : JsonTexts, trail : Affixes(MaxAffix)]
    /\ out = NotValidated
    /\ cfg = [parallel |-> FALSE, CALCULATE_COST |-> FALSE,
              ENABLE_CHECKPOINTING |-> FALSE, RESUME_FROM_CHECKPOINT |-> FALSE,
              max_workers |-> 0]
    /\ ckptFile = NoFile
    /\ hist = NoHistory
    /\ ckptLock = 0
    /\ pc = "validator"
    /\ idx = 0
    /\ total_cost = 0
    /\ usage_metadata_list = <<>>
    /\ run_metadata = NoCounters
    /\ processed_files = {}
    /\ file_status = NoStatus
    /\ all_data = <<>>
    /\ futures = <<>>
    /\ wpc = IdleWorkers
    /\ wres = NoResults
    /\ wlist = NoLists
    /\ resp = NoScenarios

Validate ==
    /\ pc = "validator"
    /\ out = NotValidated
    /\ out' = validate_json_output(TextOf(raw))
    /\ UNCHANGED <<cfg, ckptFile, ckptLock, pc, idx, total_cost,
                   usage_metadata_list, run_metadata, processed_files,
                   file_status, all_data, futures, wpc, wres, wlist, resp,
                   hist, raw>>

NextV == Validate

SpecV == InitV /\ [][NextV]_vars

(***************************************************************************)
(* _calculate_and_log_cost on its own: one usage_metadata dict (or none),  *)
(* a model name, the CALCULATE_COST flag.                                  *)
(***************************************************************************)
\* token counts of a call
TokenCounts == {0, 200, 1000}

\* thinking tokens of a call
ThinkingCounts == {0, 50}

\* usage_metadata dicts: the flag and the count vary independently, as
\* the fields of the dict do
UsageInputs ==
    [prompt_token_count : TokenCounts, candidates_token_count : TokenCounts,
     thinking_enabled : BOOLEAN, thinking_tokens_used : ThinkingCounts]

\* GOOGLE_MODEL: the listed model or one the table does not list
ModelNames == {ListedModel, "gemini-unlisted"}

NotPriced == [pricing |-> <<>>, cost |-> 0, appended |-> <<>>, called |-> FALSE]

InitP ==
    /\ raw \in [model_name : ModelNames,
                 usage_metadata : {<<>>} \cup {<<u>> : u \in UsageInputs},
                 calc : BOOLEAN]
    /\ out = NotPriced
    /\ cfg = [parallel |-> FALSE, CALCULATE_COST |-> FALSE,
              ENABLE_CHECKPOINTING |-> FALSE, RESUME_FROM_CHECKPOINT |-> FALSE,
              max_workers |-> 0]
    /\ ckptFile = NoFile
    /\ hist = NoHistory
    /\ ckptLock = 0
    /\ pc = "pricing"
    /\ idx = 0
    /\ total_cost = 0
    /\ usage_metadata_list = <<>>
    /\ run_metadata = NoCounters
    /\ processed_files = {}
    /\ file_status = NoStatus
    /\ all_data = <<>>
    /\ futures = <<>>
    /\ wpc = IdleWorkers
    /\ wres = NoResults
    /\ wlist = NoLists
    /\ resp = NoScenarios

\* one call of _calculate_and_log_cost, added to total_cost as line 226 does
CalculateCost ==
    /\ pc = "pricing"
    /\ ~out.called
    /\ LET r == calculate_and_log_cost_at(raw.model_name, raw.usage_metadata,
                                          raw.calc)
       IN  /\ out' = [pricing |-> get_model_pricing(raw.model_name),
                      cost |-> r.cost, appended |-> r.appended, called |-> TRUE]
           /\ total_cost' = total_cost + r.cost
           /\ usage_metadata_list' = usage_metadata_list \o r.appended
    /\ UNCHANGED <<cfg, ckptFile, ckptLock, pc, idx, run_metadata,
                   processed_files, file_status, all_data, futures, wpc, wres,
                   wlist, resp, hist, raw>>

NextP == CalculateCost

SpecP == InitP /\ [][NextP]_vars

(***************************************************************************)
(* main of app.py on its own: the extractor is constructed, the input path *)
(* is looked at, a single file or a directory is processed, the exit code  *)
(* is returned.                                                            *)
(***************************************************************************)
\* how MilitaryRecordsExtractor(output_dir) ends: it returns, it raises
\* ValueError (no API key), it raises something else
InitResults == {"ok", "ValueError", "Exception"}

\* what the input path is: absent, a regular file, a directory, something
\* else that exists (a socket, a device)
PathKinds == {"missing", "file", "dir", "other"}

\* main has not returned
NotReturned == [exit_code |-> -1]

\* a main that reports failed files through its exit code
main_return_FailsOnFailure(metadata) ==
    IF metadata.failed_files > 0 THEN 1 ELSE 0

\* the return at the end of main (line 188), which does not look at
\* run_metadata
main_return(metadata) == 0

\* what one file of the sequential loop, with outcome o, adds to the
\* counters, the status lists, the cost, the usage list and the records
\* kept by the sink
after_file(i, acc, o) ==
    [metadata |-> count_file(acc.metadata, o.status),
     status |->
         IF o.status = "success"
         THEN [acc.status EXCEPT !.successful = Append(@, i)]
         ELSE [acc.status EXCEPT !.failed = Append(@, i)],
     cost |-> acc.cost + o.cost,
     usage |-> acc.usage \o o.appended,
     data |-> IF o.status = "success"
              THEN acc.data \o Records(i, o.data) ELSE acc.data]

\* process_file applied to the files i..NumFiles in catalog order, as the
\* sequential loop of process_directory does without a checkpoint: the
\* counters, the status lists, the cost and the records kept by the sink
\* after the last file
RECURSIVE RunFiles(_, _, _, _)
RunFiles(i, scs, calc, acc) ==
    IF i > NumFiles THEN acc
    ELSE RunFiles(i + 1, scs, calc,
                  after_file(i, acc, process_file_outcome(scs[i], calc)))

InitM ==
    /\ raw \in [init : InitResults, path : PathKinds,
                 scs : [Files -> Scenarios], calc : BOOLEAN]
    /\ out = NotReturned
    /\ cfg = [parallel |-> FALSE, CALCULATE_COST |-> raw.calc,
              ENABLE_CHECKPOINTING |-> FALSE, RESUME_FROM_CHECKPOINT |-> FALSE,
              max_workers |-> 0]
    /\ ckptFile = NoFile
    /\ hist = NoHistory
    /\ ckptLock = 0
    /\ pc = "main_init"
    /\ idx = 0
    /\ total_cost = 0
    /\ usage_metadata_list = <<>>
    /\ run_metadata = NoCounters
    /\ processed_files = {}
    /\ file_status = NoStatus
    /\ all_data = <<>>
    /\ futures = <<>>
    /\ wpc = IdleWorkers
    /\ wres = NoResults
    /\ wlist = NoLists
    /\ resp = NoScenarios

\* lines 111-127: the constructor; both except clauses return 1
MainInitExtractor ==
    /\ pc = "main_init"
    /\ IF raw.init = "ok"
       THEN pc' = "main_path" /\ out' = out
       ELSE pc' = "exited" /\ out' = [out EXCEPT !.exit_code = 1]
    /\ UNCHANGED <<cfg, ckptFile, ckptLock, idx, total_cost,
                   usage_metadata_list, run_metadata, processed_files,
                   file_status, all_data, futures, wpc, wres, wlist, resp,
                   hist, raw>>

\* lines 129-134, 171, 180-182: exists(), is_file(), is_dir()
MainCheckPath ==
    /\ pc = "main_path"
    /\ IF raw.path = "file" THEN pc' = "main_file" /\ out' = out
       ELSE IF raw.path = "dir" THEN pc' = "main_dir" /\ out' = out
       ELSE pc' = "exited" /\ out' = [out EXCEPT !.exit_code = 1]
    /\ UNCHANGED <<cfg, ckptFile, ckptLock, idx, total_cost,
                   usage_metadata_list, run_metadata, processed_files,
                   file_status, all_data, futures, wpc, wres, wlist, resp,
                   hist, raw>>

\* lines 134-169: run_metadata is set with total_files 1, process_file
\* runs and counts the file once more (line 178), the report is generated
\* when process_file returned records
MainSingleFile ==
    /\ pc = "main_file"
    /\ \E o \in {process_file_outcome(raw.scs[1], raw.calc)} :
       LET ok == o.status = "success"
       IN  /\ run_metadata' =
                  [count_file([NoCounters EXCEPT !.total_files = 1], o.status)
                      EXCEPT !.ended = TRUE]
           /\ file_status' =
                  [file_status EXCEPT
                      !.successful = IF ok THEN Append(@, 1) ELSE @,
                      !.failed = IF ok THEN @ ELSE Append(@, 1)]
           /\ total_cost' = total_cost + o.cost
           /\ usage_metadata_list' = usage_metadata_list \o o.appended
           /\ all_data' = IF ok THEN all_data \o Records(1, o.data) ELSE all_data
           /\ resp' = [resp EXCEPT ![1] = raw.scs[1]]
           /\ hist' = [hist EXCEPT
                         !.report = IF ok
                                    THEN generate_run_report(all_data',
                                             run_metadata', file_status')
                                    ELSE <<>>]
    /\ pc' = "main_return"
    /\ UNCHANGED <<cfg, ckptFile, ckptLock, idx, processed_files, futures,
                   wpc, wres, wlist, raw, out>>

\* lines 171-178: process_directory with its report, here sequential and
\* without a checkpoint
MainDirectory ==
    /\ pc = "main_dir"
    /\ \E r \in {RunFiles(1, raw.scs, raw.calc,
                         [metadata |-> NoCounters, status |-> NoStatus,
                          cost |-> 0, usage |-> <<>>, data |-> <<>>])} :
           /\ run_metadata' = [r.metadata EXCEPT !.ended = TRUE]
           /\ file_status' = r.status
           /\ total_cost' = r.cost
           /\ usage_metadata_list' = r.usage
           /\ all_data' = r.data
           /\ hist' = [hist EXCEPT
                         !.report = generate_run_report(all_data',
                                        run_metadata', file_status')]
    /\ resp' = raw.scs
    /\ pc' = "main_return"
    /\ UNCHANGED <<cfg, ckptFile, ckptLock, idx, processed_files, futures,
                   wpc, wres, wlist, raw, out>>

\* lines 184-188
MainReturn ==
    /\ pc = "main_return"
    /\ out' = [out EXCEPT !.exit_code = main_return(run_metadata)]
    /\ pc' = "exited"
    /\ UNCHANGED <<cfg, ckptFile, ckptLock, idx, total_cost,
                   usage_metadata_list, run_metadata, processed_files,
                   file_status, all_data, futures, wpc, wres, wlist, resp,
                   hist, raw>>

NextM ==
    \/ MainInitExtractor
    \/ MainCheckPath
    \/ MainSingleFile
    \/ MainDirectory
    \/ MainReturn

SpecM == InitM /\ [][NextM]_vars

(***************************************************************************)
(* A sequential directory run started from the command line with the       *)
(* checkpoint options: main reads --enable-checkpoint, --checkpoint-file   *)
(* and --resume into local variables (app.py lines 86-88), logs them       *)
(* (lines 102-109) and calls process_directory, which reads the constants  *)
(* of config.py.                                                           *)
(***************************************************************************)
\* args of the run: the two store_true options default to the constants of
\* config.py (app.py lines 56-61), so an option is true whenever its
\* constant is; checkpoint_file is CHECKPOINT_FILE or another path, other
\* is the content of the file at that other path
CheckpointArgs ==
    [enable_checkpoint : BOOLEAN, resume : BOOLEAN,
     checkpoint_file : {"CHECKPOINT_FILE", "other"},
     other : {NoFile, ValidFile({1})}]

InitArgs ==
    /\ cfg \in {c \in Configs : ~c.parallel /\ c.CALCULATE_COST}
    /\ raw \in {a \in CheckpointArgs :
                   /\ ENABLE_CHECKPOINTING => a.enable_checkpoint
                   /\ RESUME_FROM_CHECKPOINT => a.resume}
    /\ ckptFile \in InitFiles
    /\ hist = NoHistory
    /\ ckptLock = 0
    /\ pc = "init"
    /\ idx = 0
    /\ total_cost = 0
    /\ usage_metadata_list = <<>>
    /\ run_metadata = NoCounters
    /\ processed_files = {}
    /\ file_status = NoStatus
    /\ all_data = <<>>
    /\ futures = <<>>
    /\ wpc = IdleWorkers
    /\ wres = NoResults
    /\ wlist = NoLists
    /\ resp = NoScenarios
    /\ out = NotValidated

\* process_directory as main calls it without --parallel
NextArgs ==
    \/ Start
    \/ SeqSkip
    \/ SeqProcess
    \/ SeqSink
    \/ SeqCheckpoint
    \/ Finish

SpecArgs == InitArgs /\ [][NextArgs]_vars

(***************************************************************************)
(* State functions used by the properties.                                 *)
(***************************************************************************)
Successful == Range(file_status.successful)

Failed == Range(file_status.failed)

Skipped == Range(file_status.skipped)

RunEnded == pc = "done"

\* the paths json.load finds in a checkpoint file
PathsIn(file) == IF file.exists /\ file.ok THEN file.paths ELSE {}

\* the scenario of file f fails at the read, the call or the validation
FailsAlone(sc) ==
    \/ sc.read # "ok"
    \/ sc.error
    \/ sc.text \notin {<<>>, TextFenced, TextTwoRecords}

\* the Sink did not store the records of the successfully extracted file f
SinkFailed(f) ==
    /\ f \in Successful
    /\ Validated[resp[f].text].ok
    /\ Validated[resp[f].text].data # <<>>
    /\ <<f, 1>> \notin Range(all_data)

RECURSIVE SumPrices(_)
\* the prices of the entries of a usage list, each computed on its own
SumPrices(list) ==
    IF list = <<>> THEN 0 ELSE Price(Head(list)) + SumPrices(Tail(list))

\* ReportGenerator.collect_usage_data: the total it recomputes
RECURSIVE collect_usage_data(_)
collect_usage_data(list) ==
    IF list = <<>> THEN 0
    ELSE LET metadata == Head(list)
             input_cost == metadata.prompt_token_count * InputRate
             output_cost == metadata.candidates_token_count * OutputRate
             thinking_cost ==
                 IF metadata.thinking_enabled /\ metadata.thinking_tokens_used > 0
                 THEN metadata.thinking_tokens_used * ThinkingRate ELSE 0
         IN  (input_cost + output_cost + thinking_cost)
             + collect_usage_data(Tail(list))

Count(list, u) == Cardinality({i \in 1..Len(list) : list[i] = u})

RECURSIVE SequentialCost(_)
\* what the sequential path adds to total_cost for the files fs, given the
\* responses of this run
SequentialCost(fs) ==
    IF fs = {} THEN 0
    ELSE LET f == CHOOSE x \in fs : TRUE
         IN  process_file_outcome(resp[f], CALCULATE_COST).cost
             + SequentialCost(fs \ {f})

\* how often the sequential path appends u for the files fs
SequentialCount(fs, u) ==
    Cardinality({f \in fs :
                   process_file_outcome(resp[f], CALCULATE_COST).appended = <<u>>})

\* the entries of a file_status list are in catalog order
InCatalogOrder(list) ==
    \A i, j \in 1..Len(list) : i < j => list[i] < list[j]

\* the sequential loop is at file idx (past the last file when it is over)
InSequentialLoop ==
    ~parallel /\ pc \in {"seq_loop", "seq_sink", "seq_ckpt", "finish", "done"}

\* the files for which the Recognizer was called and returned usage data u
CalledWith(u) ==
    {f \in Files : hist.calls[f] >= 1 /\ resp[f].usage_metadata = <<u>>}

RECURSIVE PriceOfCalls(_)
\* the prices of the calls made for the files fs, each call counted once
PriceOfCalls(fs) ==
    IF fs = {} THEN 0
    ELSE LET f == CHOOSE x \in fs : TRUE
         IN  (IF hist.calls[f] >= 1 /\ resp[f].usage_metadata # <<>>
              THEN Price(resp[f].usage_metadata[1]) ELSE 0)
             + PriceOfCalls(fs \ {f})

\* the worker count asked for: --workers, or the CPU cores when it is 0
RequestedWorkers == IF cfg.max_workers = 0 THEN CpuCount ELSE cfg.max_workers

\* the files of the catalog that the loaded checkpoint does not list
NonSkipped == Files \ hist.loaded

\* the parallel branch has been entered (the pool exists or has existed)
InParallelRun == parallel /\ pc \in {"submit", "collect", "finish", "done"}

\* a worker is between its read of the checkpoint file and the end of its
\* write
InUpdate(f) == wpc[f] \in {"ckpt_open", "ckpt_lock", "ckpt_dump", "ckpt_close"}

WorkersFinished ==
    /\ pc \in {"collect", "finish", "done"}
    /\ \A f \in Range(futures) : wpc[f] \in {"done", "faulted"}

(***************************************************************************)
(* C1: at the end of a process_directory run, sequential or parallel,      *)
(* every discovered file is in exactly one of the lists successful,        *)
(* failed, skipped, and the three lengths add up to the number of files.   *)
(***************************************************************************)
C1_Partition ==
    RunEnded =>
        /\ Len(file_status.successful) + Len(file_status.failed)
           + Len(file_status.skipped) = NumFiles
        /\ Successful \cup Failed \cup Skipped = Files
        /\ Successful \cap Failed = {}
        /\ Successful \cap Skipped = {}
        /\ Failed \cap Skipped = {}

C1_Witness ==
    /\ RunEnded
    /\ Cardinality({Successful, Failed, Skipped} \ {{}}) >= 2

(***************************************************************************)
(* C2: a failure of one file at any stage (read, Recognizer call,          *)
(* validation, sink, worker fault) marks that file Failed and no other:    *)
(* when the loops are over, every file not in the loaded checkpoint set    *)
(* was dispatched and is Failed exactly when one of its own stages failed, *)
(* Succeeded otherwise.                                                    *)
(***************************************************************************)
C2_FailureMarksFailed ==
    pc \in {"finish", "done"} =>
        \A f \in Files \ hist.loaded :
            /\ f \in hist.dispatched
            /\ f \in Successful \cup Failed
            /\ f \in Failed <=> \/ wpc[f] = "faulted"
                                \/ FailsAlone(resp[f])
                                \/ SinkFailed(f)

(***************************************************************************)
(* C3 as stated: with checkpointing and resume enabled, a second run on    *)
(* the unchanged directory dispatches nothing, every file is skipped.      *)
(***************************************************************************)
C3_SecondRunSkipsAll ==
    (hist.run = 2 /\ RunEnded) => (Skipped = Files /\ hist.dispatched = {})

(***************************************************************************)
(* C3 amended: the second run skips exactly the files listed in the        *)
(* checkpoint file the first run left and dispatches the others; a file    *)
(* that failed in the first run is dispatched again; in sequential mode    *)
(* with no failed checkpoint write, every file the first run marked        *)
(* Succeeded or Skipped is skipped.                                        *)
(***************************************************************************)
C3_SecondRunSkipsCheckpointed ==
    (hist.run = 2 /\ RunEnded) =>
        /\ Skipped = PathsIn(hist.left)
        /\ hist.dispatched = Files \ PathsIn(hist.left)
        /\ hist.first.failed \subseteq hist.dispatched
        /\ (~parallel /\ ~hist.first.save_failed) =>
               (hist.first.successful \cup hist.first.skipped) \subseteq Skipped

C3_Witness ==
    /\ hist.run = 2 /\ RunEnded
    /\ hist.first.failed # {}
    /\ hist.first.successful # {}
    /\ Skipped = hist.first.successful

(***************************************************************************)
(* C4: for the same files and responses a parallel run ends with the       *)
(* total_cost and the multiset of usage entries that the sequential path   *)
(* accumulates, for every setting of CALCULATE_COST.                       *)
(***************************************************************************)
C4_ParallelMatchesSequential ==
    (RunEnded /\ \A f \in Files : wpc[f] # "faulted") =>
        /\ total_cost = SequentialCost(hist.dispatched)
        /\ \A u \in UsageVals :
               Count(usage_metadata_list, u) = SequentialCount(hist.dispatched, u)

(***************************************************************************)
(* C5: at the end of a run total_cost is the sum of the prices of the      *)
(* entries of usage_metadata_list, and so is the total recomputed by       *)
(* collect_usage_data.                                                     *)
(***************************************************************************)
C5_TotalIsSumOfPrices ==
    RunEnded =>
        /\ total_cost = SumPrices(usage_metadata_list)
        /\ total_cost = collect_usage_data(usage_metadata_list)

(***************************************************************************)
(* C6: the workers' read-modify-write cycles on the checkpoint file        *)
(* exclude each other, and once all workers have finished the file lists   *)
(* every file whose worker returned success.                               *)
(***************************************************************************)
C6_ExclusiveUpdates ==
    (parallel /\ ENABLE_CHECKPOINTING) =>
        /\ Cardinality({f \in Files : InUpdate(f)}) <= 1
        /\ WorkersFinished =>
               \A f \in Files : wres[f].status = "success" => f \in PathsIn(ckptFile)

(***************************************************************************)
(* C7: whenever a worker can read the checkpoint file (it is at its read   *)
(* and the lock is free), the file holds a complete JSON array.            *)
(***************************************************************************)
C7_ReadsCompleteJson ==
    \A f \in Files :
        (wpc[f] = "ckpt_read" /\ ckptFile.exists /\ ckptLock = 0) => ckptFile.ok

(***************************************************************************)
(* C8: a file is skipped, and not dispatched, exactly when its path is in  *)
(* the checkpoint set loaded at the start of the run; the decision is      *)
(* taken once per file.                                                    *)
(***************************************************************************)
C8_SkippedIffLoaded ==
    /\ Skipped \subseteq hist.loaded
    /\ hist.dispatched \cap hist.loaded = {}
    /\ Len(file_status.skipped) = Cardinality(Skipped)
    /\ pc \in {"seq_loop", "submit"} =>
           \A f \in 1..(idx - 1) :
               /\ f \in Skipped <=> f \in hist.loaded
               /\ f \in hist.dispatched <=> f \notin hist.loaded
    /\ pc \in {"finish", "done"} =>
           /\ Skipped = hist.loaded \cap Files
           /\ hist.dispatched = Files \ hist.loaded

C8_Witness ==
    /\ RunEnded
    /\ Skipped # {}
    /\ hist.dispatched # {}

(***************************************************************************)
(* C9: in parallel mode no worker writes the checkpoint file (nor the      *)
(* Sink or the accumulators): only the orchestrating process does.         *)
(***************************************************************************)
C9_WorkersWriteNothing ==
    parallel => "worker" \notin hist.ckpt_writers

C11_WrapsSingleObject ==
    (/\ out # NotValidated
     /\ raw.json \in ObjectTexts
     /\ raw.lead = <<>>
     /\ raw.trail = <<>>) =>
        out = Returned(<<json_loads(raw.json).val>>)

(***************************************************************************)
(* C12: for every raw text without '[' and without ']', the empty text     *)
(* included, validate_json_output raises the malformed-response error      *)
(* (json.JSONDecodeError) and returns no list.                             *)
(***************************************************************************)
C12_BracketFreeTextFails ==
    (/\ out # NotValidated
     /\ "[" \notin Range(TextOf(raw))
     /\ "]" \notin Range(TextOf(raw))) =>
        out = Raised("JSONDecodeError")

(***************************************************************************)
(* C13: in sequential mode the files are processed one at a time in        *)
(* catalog order: while the loop is at file idx, every earlier file has    *)
(* its final status and, when it succeeded, its checkpoint step behind it; *)
(* no step of a later file has started; each status list is in catalog     *)
(* order.                                                                  *)
(***************************************************************************)
C13_SequentialInOrder ==
    InSequentialLoop =>
        /\ \A f \in Files : f < idx =>
               /\ f \in Successful \cup Failed \cup Skipped
               /\ f \in Successful =>
                      /\ f \in processed_files
                      /\ (ENABLE_CHECKPOINTING /\ ~hist.save_failed) =>
                             f \in PathsIn(ckptFile)
        /\ \A f \in Files : f > idx =>
               /\ f \notin Successful \cup Failed \cup Skipped
               /\ f \notin hist.dispatched
               /\ resp[f] = NoScenario
        /\ \A f \in Files : f = idx =>
               /\ pc = "seq_loop" =>
                      (f \notin Successful \cup Failed \cup Skipped
                       /\ resp[f] = NoScenario)
               /\ pc \in {"seq_sink", "seq_ckpt"} => f \in Successful
        /\ InCatalogOrder(file_status.successful)
        /\ InCatalogOrder(file_status.failed)
        /\ InCatalogOrder(file_status.skipped)

C13_Witness ==
    /\ ~parallel /\ ENABLE_CHECKPOINTING
    /\ pc = "seq_sink" /\ idx = 2
    /\ 1 \in Successful /\ 1 \in PathsIn(ckptFile)
    /\ 1 \notin hist.loaded

C15_AtMostOneCall ==
    /\ \A f \in Files : hist.calls[f] <= 1
    /\ \A i, j \in 1..Len(futures) : i # j => futures[i] # futures[j]
    /\ \A f \in Failed :
           /\ wpc[f] \in {"idle", "done", "faulted"}
           /\ (pc \in {"seq_loop", "seq_sink", "seq_ckpt"} => f < idx)
           /\ Cardinality({i \in 1..Len(file_status.failed) :
                              file_status.failed[i] = f}) = 1

C15_Witness ==
    /\ RunEnded
    /\ \E f \in Failed : hist.calls[f] = 1 /\ resp[f].error

(***************************************************************************)
(* C16: on every path through per-file processing, exception handlers      *)
(* included, the usage metadata of one Recognizer call is appended to      *)
(* usage_metadata_list at most once and its price is added to total_cost   *)
(* at most once.                                                           *)
(***************************************************************************)
C16_CountedAtMostOnce ==
    /\ \A u \in UsageVals :
           Count(usage_metadata_list, u) <= Cardinality(CalledWith(u))
    /\ total_cost <= PriceOfCalls(Files)

(***************************************************************************)
(* C17: with cost calculation enabled the price of a call is               *)
(* input tokens * input rate + output tokens * output rate + (thinking     *)
(* tokens used * thinking rate if thinking is enabled, else 0), per        *)
(* million tokens, at the rates of the configured model or at the DEFAULT  *)
(* rates when the table does not list the model; it is never negative and  *)
(* has no thinking component when thinking is disabled.                    *)
(***************************************************************************)
C17_PriceFormula ==
    (out.called /\ raw.calc /\ raw.usage_metadata # <<>>) =>
        LET u == raw.usage_metadata[1]
            rates == IF raw.model_name = ListedModel
                     THEN MODEL_PRICING[ListedModel] ELSE MODEL_PRICING["DEFAULT"]
            input_cost == u.prompt_token_count * rates.input_cost_per_million_tokens
            output_cost ==
                u.candidates_token_count * rates.output_cost_per_million_tokens
            thinking_cost ==
                IF u.thinking_enabled
                THEN u.thinking_tokens_used * rates.thinking_cost_per_million_tokens
                ELSE 0
        IN  /\ out.pricing = rates
            /\ out.cost = input_cost + output_cost + thinking_cost
            /\ out.cost >= 0
            /\ ~u.thinking_enabled => out.cost = input_cost + output_cost
            /\ total_cost = out.cost

C17_Witness ==
    /\ out.called /\ raw.calc
    /\ raw.model_name # ListedModel
    /\ raw.usage_metadata # <<>>
    /\ raw.usage_metadata[1].thinking_enabled
    /\ raw.usage_metadata[1].thinking_tokens_used > 0
    /\ out.cost > raw.usage_metadata[1].prompt_token_count * InputRate
                  + raw.usage_metadata[1].candidates_token_count * OutputRate

\* C18: main returns 1 exactly when the extractor could not be constructed,
\* the input path does not exist, or the input path is neither a file nor a
\* directory; otherwise it returns 0, however the files of the run ended.
C18_ExitCodes ==
    pc = "exited" =>
        /\ out.exit_code \in {0, 1}
        /\ out.exit_code = 1 <=>
               \/ raw.init # "ok"
               \/ raw.path = "missing"
               \/ raw.path = "other"

\* a directory run in which every file failed has returned 0
C18_Witness ==
    /\ pc = "exited"
    /\ raw.path = "dir"
    /\ run_metadata.failed_files = NumFiles
    /\ run_metadata.successful_files = 0
    /\ out.exit_code = 0

\* C19: a directory run that dispatched at least one file ends with the run
\* metadata finalised and a report produced, and every file that failed in
\* the run is listed in that report.
C19_ReportListsFailed ==
    (RunEnded /\ hist.dispatched # {}) =>
        /\ run_metadata.ended
        /\ hist.report # <<>>
        /\ \A r \in Range(hist.report) : Failed \subseteq Range(r.failed)

\* C20: at the end of a directory run total_files equals successful_files
\* plus failed_files and is the number of dispatched files, skipped files
\* not counted; in sequential and in parallel mode alike it is the number
\* of files of the directory that the loaded checkpoint does not hold.
C20_TotalIsDispatched ==
    RunEnded =>
        /\ run_metadata.total_files =
               run_metadata.successful_files + run_metadata.failed_files
        /\ run_metadata.total_files = Cardinality(hist.dispatched)
        /\ run_metadata.total_files = Cardinality(Files \ hist.loaded)
        /\ run_metadata.successful_files = Len(file_status.successful)
        /\ run_metadata.failed_files = Len(file_status.failed)
        /\ hist.dispatched \cap Skipped = {}

\* a parallel run has ended with a skipped file and a failed file
C20_Witness ==
    /\ RunEnded
    /\ parallel
    /\ Skipped # {}
    /\ run_metadata.failed_files >= 1
    /\ run_metadata.total_files = 1

\* C21: loading the checkpoint gives the empty set whenever checkpointing
\* is disabled, the checkpoint file does not exist or it cannot be read,
\* and the run goes on after loading.
C21_LoadsEmptySet ==
    [][(pc = "init" /\ pc' # "init") =>
           /\ pc' \in {"submit", "seq_loop"}
           /\ (~ENABLE_CHECKPOINTING \/ ~ckptFile.exists \/ ~ckptFile.ok) =>
                  processed_files' = {}]_vars

\* the checkpoint file named by the arguments of the run
GivenFile(file) == IF raw.checkpoint_file = "other" THEN raw.other ELSE file

\* C22: the checkpoint options of the command line govern the run: with
\* --resume the files listed in the given checkpoint file are skipped, and
\* with --enable-checkpoint the files that succeeded are recorded in the
\* given checkpoint file.
C22_OptionsGovernRun ==
    [][/\ (pc = "init" /\ pc' # "init" /\ raw.resume) =>
              processed_files' = PathsIn(GivenFile(ckptFile))
       /\ (pc' = "done" /\ raw.enable_checkpoint /\ ~hist'.save_failed) =>
              Range(file_status'.successful) \subseteq PathsIn(GivenFile(ckptFile'))
      ]_vars

\* the records of f have been handed to the Sink: f is marked successful
\* and, in sequential mode, process_file is past save_to_excel for f (in
\* parallel mode the mark and the call are one step of the collection)
HandedToSink(f) ==
    /\ f \in Successful
    /\ ~parallel => (f < idx \/ pc = "seq_ckpt")

\* C23: in both modes the path of a file enters the checkpoint file only
\* after the records of that file have been handed to the Sink.
C23_SinkBeforeCheckpoint ==
    [][\A f \in hist.dispatched :
           (f \notin PathsIn(ckptFile) /\ f \in PathsIn(ckptFile')) =>
               HandedToSink(f)]_vars

\* the collection loop of the parallel path has taken the result of f
Collected(f) ==
    /\ pc \in {"collect", "finish", "done"}
    /\ \E i \in 1..Len(futures) : futures[i] = f /\ (pc = "collect" => i < idx)

\* C24: whenever a parallel run that resumed from the checkpoint is
\* stopped, every dispatched file whose result was not collected is in
\* none of 'successful', 'failed' and the checkpoint file, so that a
\* following run with resume enabled dispatches it again.
C24_InFlightUnresolved ==
    (parallel /\ RESUME_FROM_CHECKPOINT) =>
        \A f \in hist.dispatched :
            ~Collected(f) =>
                /\ f \notin Successful
                /\ f \notin Failed
                /\ f \notin PathsIn(ckptFile)

\* the records of file f that the combined Sink data holds
StoredOf(f) == {i \in 1..Len(all_data) : all_data[i][1] = f}

\* C25: at the end of a directory run, in either mode, the combined Sink
\* data holds every record of every file marked successful exactly once,
\* and no record of a failed or skipped file.
C25_SinkHoldsSucceeded ==
    RunEnded =>
        \A f \in Files :
            IF f \in Successful
            THEN /\ Cardinality(StoredOf(f)) = Len(Validated[resp[f].text].data)
                 /\ \A k \in 1..Len(Validated[resp[f].text].data) :
                        Count(all_data, <<f, k>>) = 1
            ELSE StoredOf(f) = {}

\* the extraction of the dispatched file f gave records (possibly none)
Extracted(f) ==
    IF parallel
    THEN wpc[f] # "faulted" /\ worker_outcome(resp[f]).status = "success"
    ELSE process_file_outcome(resp[f], CALCULATE_COST).status = "success"

\* C26: a failed write of the checkpoint file or of a per-file Sink output
\* is not propagated: at the end of the run every file that is not skipped
\* has been dispatched, and every file whose extraction succeeded is marked
\* successful and counted in successful_files, whatever writes failed.
C26_WriteFailureTolerated ==
    RunEnded =>
        /\ hist.dispatched = Files \ hist.loaded
        /\ \A f \in hist.dispatched : Extracted(f) <=> f \in Successful
        /\ run_metadata.successful_files = Cardinality(Successful)

\* a parallel run has ended in which a worker could not write the
\* checkpoint, the Sink did not store the records of the first file, and
\* every file is marked successful
C26_Witness ==
    /\ RunEnded
    /\ parallel
    /\ hist.save_failed
    /\ SinkFailed(1)
    /\ Successful = Files

\* C27: under fair scheduling every dispatched file eventually is marked
\* successful or failed, and process_directory terminates, in sequential
\* and in parallel mode.
C27_EveryFileSettles ==
    <>(RunEnded /\ hist.dispatched \subseteq Successful \cup Failed)

\* a parallel run has ended after every file was dispatched, with a
\* successful and a failed file
C27_Witness ==
    /\ RunEnded
    /\ parallel
    /\ hist.dispatched = Files
    /\ Successful # {}
    /\ Failed # {}


\* C28: after a sequential run with checkpointing enabled in which a file
\* succeeded and every checkpoint write succeeded, the checkpoint file holds
\* exactly the set loaded at the start of the run united with the files that
\* succeeded in the run, and no file that failed in the run.
C28_CheckpointContent ==
    (/\ RunEnded /\ ~parallel /\ ENABLE_CHECKPOINTING
     /\ Successful # {} /\ ~hist.save_failed)
        => /\ ckptFile.ok
           /\ PathsIn(ckptFile) = hist.loaded \cup Successful
           /\ PathsIn(ckptFile) \cap Failed = {}

\* a sequential run that loaded nothing has ended with file 1 failed and
\* file 2 successful, its checkpoint written by the orchestrator
C28_Witness ==
    /\ RunEnded /\ ~parallel /\ ENABLE_CHECKPOINTING /\ ~hist.save_failed
    /\ hist.loaded = {}
    /\ 1 \in Failed
    /\ 2 \in Successful
    /\ "orchestrator" \in hist.ckpt_writers

\* the files whose result the collection loop has taken
CollectedFiles ==
    IF pc = "collect" THEN {futures[i] : i \in 1..(idx - 1)}
    ELSE IF pc \in {"finish", "done"} THEN Range(futures) ELSE {}

C30_SingleFileCounters ==
    (pc = "exited" /\ raw.init = "ok" /\ raw.path = "file") =>
        /\ run_metadata.total_files = 1
        /\ run_metadata.successful_files + run_metadata.failed_files = 1

=============================================================================
